---- MODULE Spec2Model ----
(***************************************************************************)
(* Authorization core of the drinks API (backend/src/auth/auth.py) and the *)
(* error boundary of backend/src/api.py.                                   *)
(*                                                                         *)
(* Text is modelled as a sequence of one-character strings, so that        *)
(* str.split(" ") and str.lower() are computed rather than assumed.        *)
(* A Python dict is a TLA+ record; "k in d" is  k \in DOMAIN d.            *)
(***************************************************************************)
EXTENDS Naturals, Sequences, FiniteSets, TLC

\* The longest key set the authority publishes in the model.
MaxKeys == 2

None == [class |-> "None"]

(***************************************************************************)
(* Configuration read from the environment at import time.                 *)
(***************************************************************************)
AUTH0_DOMAIN == "tenant.auth0.com"

ALGORITHMS == {"RS256"}

API_AUDIENCE == "drinks"

\* "https://" + AUTH0_DOMAIN + "/"
Issuer == <<"https://", AUTH0_DOMAIN, "/">>

(***************************************************************************)
(* Exceptions.                                                             *)
(***************************************************************************)
AuthError(error, status_code) ==
    [class |-> "AuthError", error |-> error, status_code |-> status_code]

\* An exception of a library, which is no AuthError.
Raw(cls) == [class |-> cls]

IsAuthError(e) == e.class = "AuthError"

(***************************************************************************)
(* The protected endpoints and the permission each one is decorated with.  *)
(***************************************************************************)
Routes == {"get_drinks_detail", "create_drink", "update_drink", "delete_drink"}

RequiredPermission(route) ==
    CASE route = "get_drinks_detail" -> "get:drinks-detail"
      [] route = "create_drink" -> "post:drinks"
      [] route = "update_drink" -> "patch:drinks"
      [] route = "delete_drink" -> "delete:drinks"

(***************************************************************************)
(* The key descriptors the authority may publish.  D3 is an elliptic-curve *)
(* key (no n, no e); D4 carries no kid (kid is optional in a JWK).         *)
(***************************************************************************)
D1 == [kty |-> "RSA", kid |-> "K1", use |-> "sig", n |-> "n1", e |-> "AQAB"]
D2 == [kty |-> "RSA", kid |-> "K1", use |-> "sig", n |-> "n2", e |-> "AQAB"]
D3 == [kty |-> "EC", kid |-> "K2", use |-> "sig", crv |-> "P-256", x |-> "x3", y |-> "y3"]
D4 == [kty |-> "RSA", use |-> "sig", n |-> "n4", e |-> "AQAB"]

KeyUniverse == {D1, D2, D3, D4}

(***************************************************************************)
(* Compact tokens, named by one upper-case character, and what each one    *)
(* decodes to: whether its segments parse, its unverified header, the key  *)
(* material that signed it, and its claims.                                *)
(***************************************************************************)
GoodClaims(perms) ==
    [iss |-> Issuer, aud |-> API_AUDIENCE, exp |-> "future", permissions |-> perms]

Jwt(hdr, signedBy, claims) ==
    [wellformed |-> TRUE, header |-> hdr, signedBy |-> signedBy, claims |-> claims]

Malformed == [wellformed |-> FALSE]

RS(kid) == [alg |-> "RS256", typ |-> "JWT", kid |-> kid]

TokenNames == {"A", "B", "C", "D", "E", "F", "G", "H", "I", "J", "K"}

Decoded(name) ==
    CASE name = "A" -> Jwt(RS("K1"), "n1", GoodClaims({"get:drinks-detail"}))
      [] name = "B" -> Jwt(RS("K1"), "n2", GoodClaims({"get:drinks-detail", "post:drinks", "patch:drinks",
                                       "delete:drinks"}))
      [] name = "C" -> Malformed
      [] name = "D" -> Jwt([alg |-> "RS256", typ |-> "JWT"], "n1", GoodClaims({"post:drinks"}))
      [] name = "E" -> Jwt(RS("K1"), "n1",
                           [iss |-> Issuer, aud |-> "other", exp |-> "past",
                            permissions |-> {"post:drinks"}])
      [] name = "F" -> Jwt(RS("K1"), "n1",
                           [iss |-> Issuer, aud |-> "other", exp |-> "future",
                            permissions |-> {"post:drinks"}])
      [] name = "G" -> Jwt(RS("K1"), "n1",
                           [iss |-> <<"https://", "evil.example", "/">>,
                            aud |-> API_AUDIENCE, exp |-> "future",
                            permissions |-> {"post:drinks"}])
      [] name = "H" -> Jwt(RS("K1"), "n1",
                           [iss |-> Issuer, aud |-> API_AUDIENCE, exp |-> "future"])
      [] name = "I" -> Jwt(RS("K1"), "forged", GoodClaims({"post:drinks"}))
      [] name = "J" -> Jwt([alg |-> "HS256", typ |-> "JWT", kid |-> "K1"], "n1",
                           GoodClaims({"post:drinks"}))
      [] name = "K" -> Jwt(RS("K2"), "x3", GoodClaims({"post:drinks"}))

\* A str value (a local that holds no value yet is None).
Str(chars) == [class |-> "str", chars |-> chars]

\* The token a str is: a text that is no token's name does not parse.
TokenOf(text) ==
    IF Len(text.chars) = 1 /\ text.chars[1] \in TokenNames
    THEN Decoded(text.chars[1])
    ELSE Malformed

(***************************************************************************)
(* Text helpers: str.split(sep) and str.lower().                           *)
(***************************************************************************)
RECURSIVE SplitFrom(_, _, _, _)
SplitFrom(s, sep, i, cur) ==
    IF i > Len(s) THEN <<cur>>
    ELSE IF s[i] = sep THEN <<cur>> \o SplitFrom(s, sep, i + 1, <<>>)
    ELSE SplitFrom(s, sep, i + 1, Append(cur, s[i]))

\* s.split(): runs of separators count once, and none at either end.
RECURSIVE DropEmpty(_)
DropEmpty(ps) ==
    IF ps = <<>> THEN <<>>
    ELSE IF Head(ps) = <<>> THEN DropEmpty(Tail(ps))
    ELSE <<Head(ps)>> \o DropEmpty(Tail(ps))

SplitWhitespace(s, sep) == DropEmpty(SplitFrom(s, sep, 1, <<>>))

\* s.split(sep): cut at every single separator, empty pieces kept.
Split(s, sep) == SplitFrom(s, sep, 1, <<>>)

LowerChar(c) ==
    CASE c = "A" -> "a" [] c = "B" -> "b" [] c = "C" -> "c" [] c = "D" -> "d"
      [] c = "E" -> "e" [] c = "F" -> "f" [] c = "G" -> "g" [] c = "H" -> "h"
      [] c = "I" -> "i" [] c = "J" -> "j" [] c = "K" -> "k" [] c = "R" -> "r"
      [] OTHER -> c

Lower(s) == [i \in 1..Len(s) |-> LowerChar(s[i])]

Bearer == <<"b", "e", "a", "r", "e", "r">>

(***************************************************************************)
(* What a call does: return a value or raise an exception.                 *)
(***************************************************************************)
Return(v) == [kind |-> "return", value |-> v]

Raise(e) == [kind |-> "raise", exc |-> e]

Unauthorized == AuthError([code |-> "unauthorized", description |-> "Unauthorized"], 401)

Forbidden == AuthError([code |-> "forbidden", description |-> "Forbidden"], 403)

\* get_token_auth_header(), of the request's header mapping.
get_token_auth_header(headers) ==
    IF "Authorization" \notin DOMAIN headers THEN Raise(Unauthorized)
    ELSE LET auth_header == headers.Authorization
             pieces == Split(auth_header, " ")
         IN  IF Len(pieces) # 2 THEN Raise(Unauthorized)
             ELSE IF Lower(pieces[1]) # Bearer THEN Raise(Unauthorized)
             ELSE Return(Str(pieces[2]))

\* check_permissions without its first test.
check_permissions_lenient(permission, payload) ==
    IF "permissions" \in DOMAIN payload /\ permission \notin payload.permissions
    THEN Raise(Forbidden)
    ELSE Return(TRUE)

\* check_permissions(permission, payload)
check_permissions(permission, payload) ==
    IF "permissions" \notin DOMAIN payload THEN Raise(Forbidden)
    ELSE IF permission \notin payload.permissions THEN Raise(Forbidden)
    ELSE Return(TRUE)

(***************************************************************************)
(* verify_decode_jwt and the library calls it makes.                       *)
(***************************************************************************)
\* jwt.get_unverified_header(token)
get_unverified_header(token) ==
    IF TokenOf(token).wellformed THEN Return(TokenOf(token).header)
    ELSE Raise(Raw("JWTError"))

\* The statements of the scan's body for one matching descriptor: a missing
\* field is a KeyError.
BuildRsaKey(key) ==
    IF {"kty", "kid", "use", "n", "e"} \subseteq DOMAIN key
    THEN Return([kty |-> key.kty, kid |-> key.kid, use |-> key.use,
                 n |-> key.n, e |-> key.e])
    ELSE Raise(Raw("KeyError"))

\* The scan with a break after the first match.
RECURSIVE ScanKeysFirst(_, _, _, _)
ScanKeysFirst(keys, i, kid, rsa_key) ==
    IF i > Len(keys) THEN Return(rsa_key)
    ELSE LET key == keys[i]
         IN  IF "kid" \notin DOMAIN key THEN Raise(Raw("KeyError"))
             ELSE IF key.kid = kid THEN BuildRsaKey(key)
             ELSE ScanKeysFirst(keys, i + 1, kid, rsa_key)

\* for key in jwks["keys"]: from descriptor i on, with rsa_key as it stands.
RECURSIVE ScanKeys(_, _, _, _)
ScanKeys(keys, i, kid, rsa_key) ==
    IF i > Len(keys) THEN Return(rsa_key)
    ELSE LET key == keys[i]
         IN  IF "kid" \notin DOMAIN key THEN Raise(Raw("KeyError"))
             ELSE IF key.kid = kid
             THEN IF BuildRsaKey(key).kind = "raise" THEN BuildRsaKey(key)
                  ELSE ScanKeys(keys, i + 1, kid, BuildRsaKey(key).value)
             ELSE ScanKeys(keys, i + 1, kid, rsa_key)

\* jose's signature check of a token against one key.
SignatureVerifies(tok, key) == key.kty = "RSA" /\ key.n = tok.signedBy

\* jwt.decode(token, key, algorithms, audience, issuer): the signature first,
\* then the claims in jose's order: exp, aud, iss.
JwtDecode(token, key, algorithms, audience, issuer) ==
    LET tok == TokenOf(token)
    IN  IF ~tok.wellformed THEN Raise(Raw("JWTError"))
        ELSE IF tok.header.alg \notin algorithms THEN Raise(Raw("JWTError"))
        ELSE IF ~SignatureVerifies(tok, key) THEN Raise(Raw("JWTError"))
        ELSE IF "exp" \in DOMAIN tok.claims /\ tok.claims.exp = "past"
        THEN Raise(Raw("ExpiredSignatureError"))
        ELSE IF "aud" \notin DOMAIN tok.claims \/ tok.claims.aud # audience
        THEN Raise(Raw("JWTClaimsError"))
        ELSE IF "iss" \notin DOMAIN tok.claims \/ tok.claims.iss # issuer
        THEN Raise(Raw("JWTClaimsError"))
        ELSE Return(tok.claims)

\* The try block without the except clause for ExpiredSignatureError.
DecodeOrAuthErrorNoExpiry(token, rsa_key) ==
    LET r == JwtDecode(token, rsa_key, ALGORITHMS, API_AUDIENCE, Issuer)
    IN  IF r.kind = "return" THEN r
        ELSE IF r.exc.class = "JWTClaimsError"
        THEN Raise(AuthError([code |-> "invalid_claims",
                              description |-> "Incorrect claims. Please, check the audience and issuer."],
                             403))
        ELSE Raise(AuthError([code |-> "invalid_header",
                              description |-> "Unable to parse authentication token."],
                             403))

\* The try block around jwt.decode and its three except clauses.
DecodeOrAuthError(token, rsa_key) ==
    LET r == JwtDecode(token, rsa_key, ALGORITHMS, API_AUDIENCE, Issuer)
    IN  IF r.kind = "return" THEN r
        ELSE IF r.exc.class = "ExpiredSignatureError"
        THEN Raise(AuthError([code |-> "token_expired",
                              description |-> "Token expired."], 401))
        ELSE IF r.exc.class = "JWTClaimsError"
        THEN Raise(AuthError([code |-> "invalid_claims",
                              description |-> "Incorrect claims. Please, check the audience and issuer."],
                             403))
        ELSE Raise(AuthError([code |-> "invalid_header",
                              description |-> "Unable to parse authentication token."],
                             403))

\* What a call of verify_decode_jwt did: its outcome, the key it resolved
\* (None: the empty dict) and the library calls it made, in order.
Outcome(res, rsa_key, calls) == [res |-> res, rsa_key |-> rsa_key, calls |-> calls]

\* verify_decode_jwt(token) from its third statement on, jwks being what
\* urlopen + json.loads produced.
verify_decode_jwt(token, jwks) ==
    LET hdr == get_unverified_header(token)
        c1 == <<"get_unverified_header">>
    IN  IF hdr.kind = "raise" THEN Outcome(hdr, None, c1)
        ELSE IF "kid" \notin DOMAIN hdr.value
        THEN Outcome(Raise(AuthError([code |-> "invalid_header",
                                      description |-> "Authorization malformed."], 401)),
                     None, c1)
        ELSE LET scan == ScanKeys(jwks.keys, 1, hdr.value.kid, None)
             IN  IF scan.kind = "raise" THEN Outcome(scan, None, c1)
                 ELSE IF scan.value # None
                 THEN Outcome(DecodeOrAuthError(token, scan.value), scan.value,
                              Append(c1, "decode"))
                 ELSE Outcome(Raise(AuthError([code |-> "invalid_header",
                                               description |-> "Unable to find the appropriate key."],
                                              403)),
                              None, c1)

(***************************************************************************)
(* The request boundary: abort and the registered error handlers.          *)
(***************************************************************************)
\* flask.abort(code, description): raises the HTTPException of that code.
abort(code, description) ==
    [class |-> "HTTPException", code |-> code, description |-> description]

Response(status, body) == [status |-> status, body |-> body]

\* handle_error(err, status_code, default_message)
handle_error(err, status_code, default_message) ==
    IF IsAuthError(err)
    THEN Response(err.status_code,
                  [success |-> FALSE, error |-> err.status_code,
                   message |-> err.error.description])
    ELSE Response(status_code,
                  [success |-> FALSE, error |-> status_code,
                   message |-> default_message])

\* The message each registered handler passes for its status.
DefaultMessage(code) ==
    CASE code = 400 -> "Bad Request"
      [] code = 401 -> "Unauthorized"
      [] code = 403 -> "Forbidden"
      [] code = 404 -> "Not Found"
      [] code = 405 -> "Method Not Allowed"
      [] code = 415 -> "Unsupported Media Type"
      [] code = 422 -> "Unprocessable Content"
      [] code = 500 -> "Internal Server Error"

(***************************************************************************)
(* The requests the model sends: a request without an Authorization header *)
(* and requests whose Authorization header holds one of these texts.       *)
(***************************************************************************)
Sp == <<" ">>

BearerCap == <<"B", "e", "a", "r", "e", "r">>

Basic == <<"B", "a", "s", "i", "c">>

WellFormedValues ==
    {BearerCap \o Sp \o <<t>> : t \in TokenNames}
        \cup {Bearer \o Sp \o <<"A">>, <<"B", "E", "A", "R", "E", "R">> \o Sp \o <<"B">>}

MalformedValues ==
    { <<>>,                                        \* ""
      BearerCap,                                   \* "Bearer"
      BearerCap \o Sp,                             \* "Bearer "
      BearerCap \o Sp \o <<"A">> \o Sp \o <<"B">>, \* "Bearer A B"
      BearerCap \o Sp \o Sp \o <<"A">>,            \* "Bearer  A"
      BearerCap \o Sp \o <<"A">> \o Sp,            \* "Bearer A "
      Sp \o BearerCap \o Sp \o <<"A">>,            \* " Bearer A"
      Basic \o Sp \o <<"A">>,                      \* "Basic A"
      Sp \o <<"A">>,                               \* " A"
      BearerCap \o <<"A">> }                       \* "BearerA"

RequestHeaders ==
    { [Accept |-> <<"*">>] }
        \cup { [Accept |-> <<"*">>, Authorization |-> v] :
                   v \in WellFormedValues \cup MalformedValues }

(***************************************************************************)
(* State.  published is the key set the authority serves at its well-known *)
(* endpoint.  The rest belongs to the invocation in progress: invocations  *)
(* share no variable (the wrapper and the functions it calls keep locals   *)
(* only), so the model runs them one after another, each against whatever  *)
(* the authority publishes while it runs.                                  *)
(*   route            the decorated endpoint the request is for            *)
(*   pc               the wrapper's position                               *)
(*   headers          request.headers                                      *)
(*   token, payload   the wrapper's locals                                 *)
(*   jwks             verify_decode_jwt's local, while it runs             *)
(*   rsa_key          the key verify_decode_jwt resolved                   *)
(*   err              the exception in flight                              *)
(*   resp             the response                                         *)
(*   stages, libcalls the calls the invocation made, in order              *)
(*   checked          the payload check_permissions was called with        *)
(*   called           the argument lists f was called with                 *)
(***************************************************************************)
VARIABLES published, route, pc, headers, token, jwks, rsa_key, payload, err,
          resp, stages, libcalls, checked, called

vars == <<published, route, pc, headers, token, jwks, rsa_key, payload, err,
          resp, stages, libcalls, checked, called>>

Init ==
    /\ published = <<D1>>
    /\ route = "get_drinks_detail"
    /\ pc = "idle"
    /\ headers = None
    /\ token = None
    /\ jwks = None
    /\ rsa_key = None
    /\ payload = None
    /\ err = None
    /\ resp = None
    /\ stages = <<>>
    /\ libcalls = <<>>
    /\ checked = None
    /\ called = <<>>

\* A wrapper that goes on to f whatever check_permissions did.
WrapperNextUnguarded(stage, res) ==
    IF stage = "check_permissions" THEN "call"
    ELSE IF res.kind = "raise"
    THEN IF IsAuthError(res.exc) THEN "except" ELSE "uncaught"
    ELSE CASE stage = "get_token_auth_header" -> "verify"
           [] stage = "verify_decode_jwt" -> "check"
           [] stage = "f" -> "done"

\* Where the wrapper goes after a stage: the next statement of the try
\* block, the except clause for an AuthError, or out of the wrapper.
WrapperNext(stage, res) ==
    IF res.kind = "raise"
    THEN IF IsAuthError(res.exc) THEN "except" ELSE "uncaught"
    ELSE CASE stage = "get_token_auth_header" -> "verify"
           [] stage = "verify_decode_jwt" -> "check"
           [] stage = "check_permissions" -> "call"
           [] stage = "f" -> "done"

ExcOf(res) == IF res.kind = "raise" THEN res.exc ELSE None

\* The positional arguments the wrapper hands to f: f(*args, **kwargs).
WrapperCallArgs(p, args) == args

\* urlopen(...).read() and json.loads(...): the key set as published at this
\* moment, or a transport failure.
urlopen(ok) == IF ok THEN Return([keys |-> published]) ELSE Raise(Raw("URLError"))

\* A request arrives at a decorated endpoint; the wrapper starts with fresh
\* locals and calls get_token_auth_header().
Extract ==
    /\ pc \in {"idle", "done", "responded"}
    /\ \E r \in Routes, h \in RequestHeaders :
         LET res == get_token_auth_header(h)
         IN  /\ route' = r
             /\ headers' = h
             /\ token' = IF res.kind = "return" THEN res.value ELSE None
             /\ err' = ExcOf(res)
             /\ pc' = WrapperNext("get_token_auth_header", res)
    /\ jwks' = None
    /\ rsa_key' = None
    /\ payload' = None
    /\ resp' = None
    /\ stages' = <<"get_token_auth_header">>
    /\ libcalls' = <<>>
    /\ checked' = None
    /\ called' = <<>>
    /\ UNCHANGED published

\* The wrapper calls verify_decode_jwt(token), which fetches the key set.
Fetch ==
    /\ pc = "verify"
    /\ \E ok \in BOOLEAN :
         LET res == urlopen(ok)
         IN  /\ jwks' = IF res.kind = "return" THEN res.value ELSE None
             /\ err' = ExcOf(res)
             /\ pc' = IF res.kind = "return" THEN "fetched"
                      ELSE WrapperNext("verify_decode_jwt", res)
    /\ stages' = Append(stages, "verify_decode_jwt")
    /\ libcalls' = <<"urlopen">>
    /\ UNCHANGED <<published, route, headers, token, rsa_key, payload, resp,
                   checked, called>>

\* The rest of verify_decode_jwt, on the key set it fetched; its locals end
\* with it.
Resolve ==
    /\ pc = "fetched"
    /\ LET out == verify_decode_jwt(token, jwks)
       IN  /\ payload' = IF out.res.kind = "return" THEN out.res.value ELSE None
           /\ rsa_key' = out.rsa_key
           /\ libcalls' = libcalls \o out.calls
           /\ err' = ExcOf(out.res)
           /\ pc' = WrapperNext("verify_decode_jwt", out.res)
    /\ jwks' = None
    /\ UNCHANGED <<published, route, headers, token, resp, stages, checked, called>>

\* check_permissions(permission, payload)
Check ==
    /\ pc = "check"
    /\ LET res == check_permissions(RequiredPermission(route), payload)
       IN  /\ err' = ExcOf(res)
           /\ pc' = WrapperNext("check_permissions", res)
    /\ checked' = payload
    /\ stages' = Append(stages, "check_permissions")
    /\ UNCHANGED <<published, route, headers, token, jwks, rsa_key, payload, resp,
                   libcalls, called>>

\* return f(*args, **kwargs): the endpoint runs and answers 200.
Call ==
    /\ pc = "call"
    /\ called' = Append(called, WrapperCallArgs(payload, <<>>))
    /\ stages' = Append(stages, "f")
    /\ resp' = Response(200, [success |-> TRUE])
    /\ pc' = WrapperNext("f", Return(TRUE))
    /\ UNCHANGED <<published, route, headers, token, jwks, rsa_key, payload, err,
                   libcalls, checked>>

\* except AuthError as e: abort(e.status_code, e)
Except ==
    /\ pc = "except"
    /\ err' = abort(err.status_code, err)
    /\ pc' = "errorhandler"
    /\ UNCHANGED <<published, route, headers, token, jwks, rsa_key, payload, resp,
                   stages, libcalls, checked, called>>

\* The handler registered for the HTTPException's code answers.
ErrorHandler ==
    /\ pc = "errorhandler"
    /\ resp' = handle_error(err, err.code, DefaultMessage(err.code))
    /\ pc' = "responded"
    /\ UNCHANGED <<published, route, headers, token, jwks, rsa_key, payload, err,
                   stages, libcalls, checked, called>>

\* An exception that is no AuthError leaves the wrapper; the framework
\* hands it to the handler registered for 500.
Uncaught ==
    /\ pc = "uncaught"
    /\ resp' = handle_error(err, 500, DefaultMessage(500))
    /\ pc' = "responded"
    /\ UNCHANGED <<published, route, headers, token, jwks, rsa_key, payload, err,
                   stages, libcalls, checked, called>>

\* The authority adds a key descriptor to its published set.
Publish(d) ==
    /\ Len(published) < MaxKeys
    /\ \A i \in 1..Len(published) : published[i] # d
    /\ published' = Append(published, d)
    /\ UNCHANGED <<route, pc, headers, token, jwks, rsa_key, payload, err, resp,
                   stages, libcalls, checked, called>>

\* The authority removes a key descriptor from its published set.
Retire(i) ==
    /\ i \in 1..Len(published)
    /\ published' = [j \in 1..(Len(published) - 1) |->
                        IF j < i THEN published[j] ELSE published[j + 1]]
    /\ UNCHANGED <<route, pc, headers, token, jwks, rsa_key, payload, err, resp,
                   stages, libcalls, checked, called>>

Next ==
    \/ Extract
    \/ Fetch
    \/ Resolve
    \/ Check
    \/ Call
    \/ Except
    \/ ErrorHandler
    \/ Uncaught
    \/ \E d \in KeyUniverse : Publish(d)
    \/ \E i \in 1..MaxKeys : Retire(i)

Spec == Init /\ [][Next]_vars

(***************************************************************************)
(* Properties.                                                             *)
(***************************************************************************)
\* The AuthError of this invocation, also once abort has wrapped it.
OriginalError == IF err.class = "HTTPException" THEN err.description ELSE err

AuthErrorIs(code, status) ==
    /\ IsAuthError(OriginalError)
    /\ OriginalError.error.code = code
    /\ OriginalError.status_code = status

StageOrder == <<"get_token_auth_header", "verify_decode_jwt", "check_permissions", "f">>

IsPrefix(s, t) == Len(s) <= Len(t) /\ \A i \in 1..Len(s) : s[i] = t[i]

Has(seq, x) == \E i \in 1..Len(seq) : seq[i] = x

\* Descriptor d carries key-identifier kid.
Names(d, kid) == "kid" \in DOMAIN d /\ d.kid = kid

\* C1: in every invocation of the wrapper the stages run in the order
\* get_token_auth_header, verify_decode_jwt, check_permissions, f, a stage
\* starting only after the earlier ones returned: no stage is pending while an
\* exception is in flight, check_permissions is called only with the payload
\* verify_decode_jwt returned in this invocation, and f is not started in an
\* invocation in which an AuthError was raised.
C1_StagesInOrder ==
    /\ IsPrefix(stages, StageOrder)
    /\ err # None => pc \notin {"verify", "fetched", "check", "call", "done"}
    /\ Len(stages) >= 2 => token # None
    /\ Len(stages) >= 3 =>
         /\ payload # None
         /\ checked = payload
         /\ Has(libcalls, "decode")
         /\ payload = TokenOf(token).claims
    /\ Has(stages, "f") => err = None /\ Len(stages) = 4
    /\ err # None => ~Has(stages, "f") /\ called = <<>>

C1_Witness == pc = "done" /\ stages = StageOrder /\ checked = payload

\* C2: for a request whose token verified and whose payload holds the
\* required permission, the wrapper calls the wrapped operation exactly once
\* and hands it the decoded payload.
C2_PayloadPassedOnce ==
    ( /\ pc \in {"done", "responded"}
      /\ payload # None
      /\ "permissions" \in DOMAIN payload
      /\ RequiredPermission(route) \in payload.permissions )
    => called = << <<payload>> >>

\* C3: the response to an AuthError raised inside the wrapper has the
\* AuthError's status and carries the AuthError's own description.
C3_ResponseCarriesDescription ==
    (pc = "responded" /\ IsAuthError(OriginalError))
    => resp = Response(OriginalError.status_code,
                       [success |-> FALSE, error |-> OriginalError.status_code,
                        message |-> OriginalError.error.description])

\* C4: when verify_decode_jwt resolved a key and the token's signature is
\* valid under it, an expired token fails with token_expired/401 and an
\* unexpired token with a wrong audience or issuer fails with
\* invalid_claims/403; neither yields a payload.
C4_ExpiryThenClaims ==
    LET tok == TokenOf(token)
        expired == "exp" \in DOMAIN tok.claims /\ tok.claims.exp = "past"
        mismatch == \/ "aud" \notin DOMAIN tok.claims
                    \/ tok.claims.aud # API_AUDIENCE
                    \/ "iss" \notin DOMAIN tok.claims
                    \/ tok.claims.iss # Issuer
    IN  ( /\ rsa_key # None
          /\ tok.header.alg \in ALGORITHMS
          /\ SignatureVerifies(tok, rsa_key) )
        => /\ expired => AuthErrorIs("token_expired", 401) /\ payload = None
           /\ (~expired /\ mismatch) => AuthErrorIs("invalid_claims", 403) /\ payload = None

C4_Witness ==
    /\ token = Str(<<"E">>)
    /\ rsa_key # None
    /\ SignatureVerifies(TokenOf(token), rsa_key)
    /\ AuthErrorIs("token_expired", 401)

\* C5: once the key set was fetched, a failure of verify_decode_jwt is an
\* AuthError (invalid_header unless it is the expiry or the claims), and no
\* other exception leaves verify_decode_jwt or the wrapper.
C5_OnlyAuthErrorsEscape ==
    ( /\ stages # <<>>
      /\ stages[Len(stages)] = "verify_decode_jwt"
      /\ err # None
      /\ OriginalError.class # "URLError" )
    => /\ IsAuthError(OriginalError)
       /\ OriginalError.error.code \in {"invalid_header", "token_expired", "invalid_claims"}
       /\ pc # "uncaught"

BearerCases ==
    << {"b", "B"}, {"e", "E"}, {"a", "A"}, {"r", "R"}, {"e", "E"}, {"r", "R"} >>

\* Text v has a single space, at position i, and "bearer" in any case before it.
BearerAt(v, i) ==
    /\ v[i] = " "
    /\ \A j \in 1..Len(v) : j # i => v[j] # " "
    /\ i = 7
    /\ \A k \in 1..6 : v[k] \in BearerCases[k]

\* C6: get_token_auth_header returns the second piece of the Authorization
\* header verbatim exactly when the header is present, has exactly two
\* pieces between single spaces and its first piece is "bearer" in any case;
\* for every other request it raises AuthError Unauthorized/401 and no token
\* is returned.
C6_ExtractBearer ==
    pc # "idle" =>
        IF /\ "Authorization" \in DOMAIN headers
           /\ \E i \in 1..Len(headers.Authorization) : BearerAt(headers.Authorization, i)
        THEN /\ token = Str(SubSeq(headers.Authorization, 8, Len(headers.Authorization)))
             /\ ~(Len(stages) = 1 /\ err # None)
        ELSE /\ token = None
             /\ stages = <<"get_token_auth_header">>
             /\ OriginalError = AuthError([code |-> "unauthorized",
                                           description |-> "Unauthorized"], 401)

C6_Witness ==
    /\ pc = "verify"
    /\ headers.Authorization = <<"B", "E", "A", "R", "E", "R", " ", "B">>
    /\ token = Str(<<"B">>)

\* A step in which verify_decode_jwt runs on the key set it fetched, for a
\* token whose header parses.
ResolvesParsedToken == pc = "fetched" /\ pc' # "fetched" /\ TokenOf(token).wellformed

\* C7: a token whose header has no kid fails with invalid_header/401, and a
\* token whose kid matches no descriptor of the fetched key set fails with
\* invalid_header/403 "Unable to find the appropriate key."; jwt.decode is
\* attempted in neither case.
C7_KeyResolutionFailures ==
    [][ ResolvesParsedToken =>
          LET hdr == TokenOf(token).header
          IN  /\ "kid" \notin DOMAIN hdr =>
                   /\ err' = AuthError([code |-> "invalid_header",
                                        description |-> "Authorization malformed."], 401)
                   /\ ~Has(libcalls', "decode")
              /\ ( /\ "kid" \in DOMAIN hdr
                   /\ \A i \in 1..Len(jwks.keys) : ~Names(jwks.keys[i], hdr.kid) ) =>
                   /\ err' = AuthError([code |-> "invalid_header",
                                        description |-> "Unable to find the appropriate key."],
                                       403)
                   /\ ~Has(libcalls', "decode") ]_vars

\* C8: check_permissions passes exactly when the payload has a permissions
\* entry that contains the required permission, and raises AuthError
\* forbidden/403 otherwise; the outcome is a function of the permission and
\* the payload.
C8_PermissionGuard ==
    Has(stages, "check_permissions") =>
        IF /\ "permissions" \in DOMAIN checked
           /\ RequiredPermission(route) \in checked.permissions
        THEN err = None /\ pc \in {"call", "done"}
        ELSE /\ AuthErrorIs("forbidden", 403)
             /\ pc \in {"except", "errorhandler", "responded"}
             /\ ~Has(stages, "f")

C8_Witness ==
    /\ Has(stages, "check_permissions")
    /\ "permissions" \notin DOMAIN checked
    /\ AuthErrorIs("forbidden", 403)

\* C9: every call of verify_decode_jwt fetches the key set as the authority
\* publishes it at that moment and works on that result alone: a token naming
\* a key that is not in the set fetched for this call fails with
\* invalid_header/403, whatever earlier calls fetched or returned.
C9_FreshKeySetEveryCall ==
    [][ /\ (pc = "verify" /\ pc' = "fetched") => jwks' = [keys |-> published]
        /\ ( /\ ResolvesParsedToken
             /\ "kid" \in DOMAIN TokenOf(token).header
             /\ \A i \in 1..Len(jwks.keys) :
                    ~Names(jwks.keys[i], TokenOf(token).header.kid) )
           => /\ payload' = None
              /\ err'.class = "AuthError"
              /\ err'.error.code = "invalid_header"
              /\ err'.status_code = 403 ]_vars

\* C10: the key handed to jwt.decode is built from the last descriptor of
\* the fetched key set whose kid is the token's, its kty, kid, use, n and e
\* copied unaltered, and jwt.decode is called once, with that key.
C10_LastMatchingKeyWins ==
    [][ (pc = "fetched" /\ Has(libcalls', "decode")) =>
          LET kid == TokenOf(token).header.kid
              keys == jwks.keys
          IN  /\ \E i \in 1..Len(keys) :
                    /\ Names(keys[i], kid)
                    /\ \A j \in (i + 1)..Len(keys) : ~Names(keys[j], kid)
                    /\ rsa_key' = [f \in {"kty", "kid", "use", "n", "e"} |-> keys[i][f]]
              /\ Cardinality({k \in 1..Len(libcalls') : libcalls'[k] = "decode"}) = 1 ]_vars

C10_Witness ==
    /\ published = <<D1, D2>>
    /\ token = Str(<<"B">>)
    /\ rsa_key = D2
    /\ payload = TokenOf(token).claims

====
